---- MODULE Spec2Model ----
(***************************************************************************)
(* State-machine model of the trading bot's strategy objects                *)
(* (bot/strategies), risk manager (bot/core/risk_manager.py) and engine     *)
(* (bot/core/trading_engine.py).                                            *)
(*                                                                          *)
(* Conventions.  Python None is the string "None" for signals and the empty *)
(* sequence <<>> for optional numbers (a price p is <<p>>).  A call that    *)
(* raises leaves the name of the exception in ret.  Floats are modelled by  *)
(* exact rationals <<numerator, denominator>>.  A DataFrame is a sequence   *)
(* of bars, the empty DataFrame is <<>>; the variables that hold a          *)
(* DataFrame hold the name of one of the histories below.                   *)
(***************************************************************************)
EXTENDS Integers, Sequences, FiniteSets, TLC

None == "None"
NoNum == <<>>
Some(x) == <<x>>

-----------------------------------------------------------------------------
(* Bounds of the model *)

\* largest |current_position| explored (get_order adds without limit)
MaxPos == 2
\* the wall-clock dates explored are 0..MaxDay
MaxDay == 1
\* largest ledger quantity and engine trade count explored
MaxLedger == 2
MaxEngineTrades == 2
\* largest number of accepted venue requests explored next to a strategy
MaxSent == 2
\* how many orders past daily_order_limit an OrderManager is followed for
MaxOver == 4
\* most positions handed to OrderManager.close_all_positions
MaxOpen == 2
\* longest series and largest period the indicators are applied to
MaxLen == 4
MaxPeriod == 3

-----------------------------------------------------------------------------
(* Constructor parameters and program constants *)

\* BaseStrategy.__init__: quantity
quantity == 1
\* RSIMeanReversion.__init__: params.get('rsi_period', 14)
rsi_period == 14
\* params.get('oversold', 30) and params.get('overbought', 70)
oversold_level == 30
overbought_level == 70
\* calculate_atr(..., period=14)
atr_period == 14
\* PairTradingStrategy.__init__: params.get('hedge_ratio_update', 50);
\* the instance explored re-estimates every second call
hedge_ratio_update == 2
\* PairTradingStrategy.__init__: the params of the instance explored
\* (entry_z = 1.0, exit_z = 0.5, lookback_period = 100)
params ==
    [entry_z |-> <<1, 1>>, exit_z |-> <<1, 2>>, lookback_period |-> 100]
\* RiskManager.__init__: config.get('max_position_size', 100000) and
\* config.get('max_daily_trades', 200); the session times it reads from
\* the config, in minutes after midnight (10:00 and 18:45)
config ==
    [max_position_size |-> 100000, max_daily_trades |-> 200,
     trading_start_time |-> 600, trading_end_time |-> 1125]
\* "the last 5 minutes of the session"
close_out_minutes == 5

-----------------------------------------------------------------------------
(* Market data *)

Bar(h, l, c) == [high |-> h, low |-> l, close |-> c]
FlatBars(cs) == [i \in 1..Len(cs) |-> Bar(cs[i] + 1, cs[i] - 1, cs[i])]

\* a 4-bar history and a 15-bar history for single-instrument strategies
ShortBars == FlatBars(<<3, 2, 4, 3>>)
LongBars == FlatBars(<<5, 5, 4, 4, 3, 3, 2, 2, 3, 3, 4, 4, 3, 2, 2>>)
\* histories of the main and of the second instrument of a pair
MainBars1 == FlatBars(<<1, 2, 3, 1>>)
MainBars2 == FlatBars(<<1, 1, 3, 4>>)
PairBars1 == FlatBars(<<3, 2, 1, 4>>)
PairBars2 == FlatBars(<<1, 2, 3, 2>>)

Frame(name) ==
    CASE name = "short" -> ShortBars
      [] name = "long" -> LongBars
      [] name = "main1" -> MainBars1
      [] name = "main2" -> MainBars2
      [] name = "pair1" -> PairBars1
      [] name = "pair2" -> PairBars2
      [] OTHER -> <<>>
Empty(name) == Frame(name) = <<>>

Kinds == {"base", "rsi", "pair"}
SingleData == {"empty", "short", "long"}
MainData == {"empty", "main1", "main2"}
PairData == {"empty", "pair1", "pair2"}
DataFor(k) == IF k = "pair" THEN MainData ELSE SingleData

Closes(df) == [i \in 1..Len(df) |-> df[i].close]
LastClose(df) == df[Len(df)].close
LastN(s, n) == SubSeq(s, Len(s) - n + 1, Len(s))

RECURSIVE SumSeq(_)
SumSeq(s) == IF s = <<>> THEN 0 ELSE Head(s) + SumSeq(Tail(s))
Dot(a, b) == SumSeq([i \in 1..Len(a) |-> a[i] * b[i]])
Min2(a, b) == IF a <= b THEN a ELSE b
Abs(a) == IF a < 0 THEN 0 - a ELSE a
RECURSIVE GCD(_, _)
GCD(a, b) == IF b = 0 THEN a ELSE GCD(b, a % b)
\* the rational n/d with d > 0, in lowest terms
Ratio(n, d) ==
    LET g == GCD(Abs(n), d) IN <<n \div g, d \div g>>

-----------------------------------------------------------------------------
(* State *)

VARIABLES
    kind,              \* the strategy class instantiated
    impl,              \* the subclass's generate_signal, for kind "base"
    data,              \* BaseStrategy.data
    last_signal,       \* BaseStrategy.last_signal
    current_position,  \* BaseStrategy.current_position
    stop_loss_price,   \* BaseStrategy.stop_loss_price
    entry_price,       \* BaseStrategy.entry_price
    pair_data,         \* PairTradingStrategy.pair_data
    hedge_ratio,       \* PairTradingStrategy.hedge_ratio
    update_counter,    \* PairTradingStrategy.update_counter
    pair_position,     \* PairTradingStrategy.pair_position
    op,                \* the method called last
    ret,               \* what it returned, or the exception it raised
    gen,               \* what generate_signal() returned inside that call
    recomputed,        \* whether that call re-estimated the hedge ratio
    fired,             \* the signal of the last has_order_signal() = True
    genCalls           \* generate_signal() calls on data, modulo the period

stratVars ==
    <<kind, impl, data, last_signal, current_position, stop_loss_price,
      entry_price, pair_data, hedge_ratio, update_counter, pair_position,
      op, ret, gen, recomputed, fired, genCalls>>

VARIABLES
    daily_trades,      \* RiskManager.daily_trades
    current_date,      \* RiskManager.current_date
    today,             \* the wall clock's date, date.today()
    now,               \* the wall clock's time of day, in minutes
    rm_op,             \* the RiskManager method called last, or "clock"
    rm_order,          \* the order it was given
    rm_ret,            \* what it returned
    rm_before,         \* daily_trades when it was called
    rm_rolled,         \* whether the date had advanced when it was called
    rm_presented       \* the orders within the size limit check_order has
                       \* been given on the wall clock's date, that call
                       \* included, counted up to max_daily_trades + 1

riskVars ==
    <<daily_trades, current_date, today, now, rm_op, rm_order, rm_ret,
      rm_before, rm_rolled, rm_presented>>

VARIABLES
    positions,         \* Portfolio.positions: the ledger, per ticker
    last_prices,       \* TradingEngine.last_prices
    eng_daily_trades,  \* TradingEngine.daily_trades
    eng_op,            \* the TradingEngine method run last
    submitted,         \* per ticker, how the order that method submitted
                       \* for it ended: "ok", "failed", or "none" sent
    fetched_price      \* per ticker, what get_current_price returned to
                       \* that method: <<r>>, or <<>> when it was not asked

engVars ==
    <<positions, last_prices, eng_daily_trades, eng_op, submitted,
      fetched_price>>

VARIABLES
    orders_sent,       \* OrderManager.orders_sent
    daily_orders,      \* OrderManager.daily_orders
    om_op,             \* the OrderManager method called last
    om_order,          \* the order it was given
    om_ret,            \* what it returned
    om_legs            \* the requests it posted to the venue, in order,
                       \* each with whether the venue accepted it

omVars == <<orders_sent, daily_orders, om_op, om_order, om_ret, om_legs>>

VARIABLES
    is_running,        \* TradingEngine.is_running
    trading_active,    \* TradingEngine.trading_active
    pc,                \* where start() is: "idle" before the call, then
                       \* "top", "fetch", "signals", "stops", "closing",
                       \* "sleep", "cooldown", and "done" once it returned
    todo,              \* the tickers whose strategy the iteration has
                       \* still to ask for a signal
    liquidated,        \* whether _close_all_positions has run
    raised,            \* whether a cycle has raised an Exception since the
                       \* last cycle that ran to its end
    stops_at,          \* per ticker, the stop level get_stop_loss has for
                       \* its position in this cycle (NoNum: none)
    initialized,       \* whether initialize_strategies() has populated
                       \* strategy_instances
    ordered            \* per ticker, the signal its strategy computed in
                       \* the latest cycle if an order was created for it
                       \* (None: no signal, no order, or not asked)

loopVars ==
    <<is_running, trading_active, pc, todo, liquidated, raised, stops_at,
      initialized, ordered>>

VARIABLES
    ind_name,          \* the indicator function called last
    ind_data,          \* the closes it was given (its bars are FlatBars)
    ind_period,        \* the period it was given
    ind_out            \* what it returned

indVars == <<ind_name, ind_data, ind_period, ind_out>>

vars == <<stratVars, riskVars, engVars, omVars, loopVars, indVars>>

\* what an operation of one component leaves alone; the engine's methods
\* are run by start(), which moves the loop variables with them
exceptStrat == <<riskVars, engVars, omVars, loopVars, indVars>>
exceptRisk == <<stratVars, engVars, omVars, loopVars, indVars>>
exceptEng == <<stratVars, riskVars, omVars, indVars>>
exceptOm == <<stratVars, riskVars, engVars, loopVars, indVars>>
exceptInd == <<stratVars, riskVars, engVars, omVars, loopVars>>

-----------------------------------------------------------------------------
(* numpy: the truth value of an array, as `if array:` evaluates it *)

\* n: the array's length; one: the truth of its only element when n = 1.
\* An array of several elements raises ValueError; an empty one is False
\* (with a DeprecationWarning) up to numpy 2.1 and raises from numpy 2.2.
ArrayTruth(n, one) ==
    IF n > 1 THEN {"ValueError"}
    ELSE IF n = 1 THEN {IF one THEN "True" ELSE "False"}
    ELSE {"False", "ValueError"}

\* len(calculate_rsi(data, period)): an array aligned with the input, or
\* the empty array when len(data) <= period
RsiLen(n, period) == IF n <= period THEN 0 ELSE n
\* len(calculate_atr(high, low, close)): likewise, period 14
AtrLen(n) == IF n <= atr_period THEN 0 ELSE n

-----------------------------------------------------------------------------
(* PairTradingStrategy: hedge ratio, spread, z-score *)

\* OLS slope of the main closes on the second instrument's closes over the
\* last min_len bars; the regression of a constant regressor has no second
\* parameter (params[1] raises inside the try) and keeps the old ratio
calculate_hedge_ratio(df, pdf, hr) ==
    IF df = <<>> \/ pdf = <<>> THEN hr
    ELSE LET min_len ==
                 Min2(Min2(Len(df), Len(pdf)), params.lookback_period)
             y == LastN(Closes(df), min_len)
             x == LastN(Closes(pdf), min_len)
             den == min_len * Dot(x, x) - SumSeq(x) * SumSeq(x)
             num == min_len * Dot(x, y) - SumSeq(x) * SumSeq(y)
         IN IF den = 0 THEN hr ELSE Ratio(num, den)

\* calculate_spread and the z-score of generate_signal, exactly: with
\* hr = n/d and s[i] = d*p1[i] - n*p2[i] over the lookback window of
\* length k, z = dev / sqrt(v) where dev = k*s[last] - sum(s) and
\* v = k*sum(s^2) - sum(s)^2; v = 0 is the spread_std == 0 case, where
\* dev = 0 too and z = 0.
ZScore(df, pdf, hr) ==
    IF df = <<>> \/ pdf = <<>> THEN [dev |-> 0, v |-> 0]
    ELSE LET min_len == Min2(Len(df), Len(pdf))
             p1 == LastN(Closes(df), min_len)
             p2 == LastN(Closes(pdf), min_len)
             spread_history ==
                 [i \in 1..min_len |-> hr[2] * p1[i] - hr[1] * p2[i]]
             lookback == Min2(min_len, params.lookback_period)
             s == LastN(spread_history, lookback)
         IN [dev |-> lookback * s[lookback] - SumSeq(s),
             v |-> lookback * Dot(s, s) - SumSeq(s) * SumSeq(s)]

\* abs(z_score) > q and abs(z_score) < q for a rational q = <<a, b>> > 0
AbsGreater(z, q) == z.v > 0 /\ z.dev * z.dev * q[2] * q[2] > q[1] * q[1] * z.v
AbsLess(z, q) == z.v = 0 \/ z.dev * z.dev * q[2] * q[2] < q[1] * q[1] * z.v

\* mutant of PairDecision: the exit branch without its position test
PairDecision_ExitUnheld(z, pos) ==
    IF AbsGreater(z, params.entry_z) /\ pos = 0
    THEN IF z.dev > 0 THEN "sell_pair" ELSE "buy_pair"
    ELSE IF AbsLess(z, params.exit_z) THEN "close_pair"
    ELSE None

\* the entry and exit conditions of PairTradingStrategy.generate_signal
PairDecision(z, pos) ==
    IF AbsGreater(z, params.entry_z) /\ pos = 0
    THEN IF z.dev > 0 THEN "sell_pair" ELSE "buy_pair"
    ELSE IF AbsLess(z, params.exit_z) /\ pos # 0 THEN "close_pair"
    ELSE None

\* mutant of RecomputeDue: > for >=
RecomputeDue_Late(counter) == counter + 1 > hedge_ratio_update

\* whether this call of generate_signal re-estimates the hedge ratio
RecomputeDue(counter) == counter + 1 >= hedge_ratio_update

\* PairTradingStrategy.generate_signal: the value returned and the fields
\* it leaves behind
PairGenerate ==
    IF Empty(data) \/ Empty(pair_data)
    THEN [signal |-> None, hedge_ratio |-> hedge_ratio,
          update_counter |-> update_counter, recomputed |-> FALSE]
    ELSE LET due == RecomputeDue(update_counter)
             hr == IF due
                   THEN calculate_hedge_ratio(Frame(data), Frame(pair_data),
                                              hedge_ratio)
                   ELSE hedge_ratio
         IN [signal |->
                 PairDecision(ZScore(Frame(data), Frame(pair_data), hr),
                              current_position),
             hedge_ratio |-> hr,
             update_counter |-> IF due THEN 0 ELSE update_counter + 1,
             recomputed |-> due]

\* RSIMeanReversion.generate_signal: None on short data; otherwise
\* calculate_rsi returns the whole array and `if current_rsi < oversold`
\* takes the truth value of an array of len(data) >= rsi_period + 1 values
RsiGenerate ==
    IF Empty(data) \/ Len(Frame(data)) < rsi_period + 1 THEN {None}
    ELSE LET outcomes ==
                 ArrayTruth(RsiLen(Len(Frame(data)), rsi_period), FALSE)
         IN {IF o = "ValueError" THEN o ELSE None : o \in outcomes}

\* the outcomes of self.generate_signal() for the strategy at hand: a
\* record of the value returned (or the exception) and the pair fields
GenerateOutcomes ==
    LET same(sig) == [signal |-> sig, hedge_ratio |-> hedge_ratio,
                      update_counter |-> update_counter,
                      recomputed |-> FALSE]
    IN CASE kind = "pair" -> {PairGenerate}
         [] kind = "rsi" -> {same(sig) : sig \in RsiGenerate}
         [] OTHER -> {same(impl[data])}

Signals == {"buy", "sell", "buy_pair", "sell_pair", "close_pair"}
IsSignal(x) == x \in Signals

-----------------------------------------------------------------------------
(* Strategy operations *)

StratInit ==
    /\ kind \in Kinds
    /\ impl \in IF kind = "base"
                THEN [SingleData -> {None, "buy", "sell"}]
                ELSE {[d \in SingleData |-> None]}
    /\ data = "empty"
    /\ last_signal = None
    /\ current_position = 0
    /\ stop_loss_price = NoNum
    /\ entry_price = NoNum
    /\ pair_data = "empty"
    /\ hedge_ratio = <<1, 1>>
    /\ update_counter = 0
    /\ pair_position = 0
    /\ op = "__init__"
    /\ ret = None
    /\ gen = None
    /\ recomputed = FALSE
    /\ fired = None
    /\ genCalls = 0

\* BaseStrategy.update_risk_management on the data just stored: what the
\* call raises, or None.  `if atr > 0` takes the truth value of the array
\* calculate_atr returns, which is never a single element, so the
\* assignments to stop_loss_price under it are not reached.
RiskManagementOutcomes(df) ==
    IF current_position # 0 /\ entry_price # NoNum
    THEN IF df = <<>> THEN {"KeyError"}
         ELSE {IF o = "ValueError" THEN o ELSE None :
                  o \in ArrayTruth(AtrLen(Len(df)), FALSE)}
    ELSE {None}

\* BaseStrategy.on_data
OnData(d) ==
    /\ data' = d
    /\ ret' \in RiskManagementOutcomes(Frame(d))
    /\ op' = "on_data"
    /\ gen' = None
    /\ recomputed' = FALSE
    /\ UNCHANGED <<kind, impl, last_signal, current_position,
                   stop_loss_price, entry_price, pair_data, hedge_ratio,
                   update_counter, pair_position, fired, genCalls>>
    /\ UNCHANGED exceptStrat

\* BaseStrategy.set_initial_data
SetInitialData(d) ==
    /\ data' = d
    /\ op' = "set_initial_data"
    /\ ret' = None
    /\ gen' = None
    /\ recomputed' = FALSE
    /\ UNCHANGED <<kind, impl, last_signal, current_position,
                   stop_loss_price, entry_price, pair_data, hedge_ratio,
                   update_counter, pair_position, fired, genCalls>>
    /\ UNCHANGED exceptStrat

\* PairTradingStrategy.set_pair_data
SetPairData(d) ==
    /\ kind = "pair"
    /\ pair_data' = d
    /\ op' = "set_pair_data"
    /\ ret' = None
    /\ gen' = None
    /\ recomputed' = FALSE
    /\ UNCHANGED <<kind, impl, data, last_signal, current_position,
                   stop_loss_price, entry_price, hedge_ratio,
                   update_counter, pair_position, fired, genCalls>>
    /\ UNCHANGED exceptStrat

\* the count of generate_signal() calls that got past the empty-data
\* return, modulo hedge_ratio_update
CountCall ==
    IF kind = "pair" /\ ~Empty(data) /\ ~Empty(pair_data)
    THEN (genCalls + 1) % hedge_ratio_update
    ELSE genCalls

\* mutant of EdgeTrigger: level-triggered, last_signal not compared
EdgeTrigger_Level(o) ==
    IF o.signal = "ValueError"
    THEN [ret |-> "ValueError", last_signal |-> last_signal]
    ELSE IF o.signal # None
    THEN [ret |-> "True", last_signal |-> o.signal]
    ELSE [ret |-> "False", last_signal |-> last_signal]

\* BaseStrategy.has_order_signal on a generate_signal() outcome o
EdgeTrigger(o) ==
    IF o.signal = "ValueError"
    THEN [ret |-> "ValueError", last_signal |-> last_signal]
    ELSE IF o.signal # None /\ o.signal # last_signal
    THEN [ret |-> "True", last_signal |-> o.signal]
    ELSE [ret |-> "False", last_signal |-> last_signal]

\* BaseStrategy.has_order_signal
HasOrderSignal ==
    \E o \in GenerateOutcomes :
        /\ last_signal' = EdgeTrigger(o).last_signal
        /\ ret' = EdgeTrigger(o).ret
        /\ fired' = IF EdgeTrigger(o).ret = "True" THEN o.signal ELSE fired
        /\ gen' = o.signal
        /\ hedge_ratio' = o.hedge_ratio
        /\ update_counter' = o.update_counter
        /\ recomputed' = o.recomputed
        /\ genCalls' = CountCall
        /\ op' = "has_order_signal"
        /\ UNCHANGED <<kind, impl, data, current_position, stop_loss_price,
                       entry_price, pair_data, pair_position>>
        /\ UNCHANGED exceptStrat

\* generate_signal called on its own
GenerateSignal ==
    \E o \in GenerateOutcomes :
        /\ ret' = o.signal
        /\ gen' = o.signal
        /\ hedge_ratio' = o.hedge_ratio
        /\ update_counter' = o.update_counter
        /\ recomputed' = o.recomputed
        /\ genCalls' = CountCall
        /\ op' = "generate_signal"
        /\ UNCHANGED <<kind, impl, data, last_signal, current_position,
                       stop_loss_price, entry_price, pair_data,
                       pair_position, fired>>
        /\ UNCHANGED exceptStrat

\* BaseStrategy.get_order: the position and entry price it leaves
BaseOrderEffect ==
    IF last_signal = "buy"
    THEN [current_position |-> current_position + quantity,
          entry_price |-> Some(LastClose(Frame(data)))]
    ELSE IF last_signal = "sell"
    THEN [current_position |-> current_position - quantity,
          entry_price |-> Some(LastClose(Frame(data)))]
    ELSE [current_position |-> current_position,
          entry_price |-> entry_price]

\* BaseStrategy.get_order (also RSIMeanReversion's)
BaseGetOrder ==
    /\ kind # "pair"
    /\ IF last_signal = None \/ Empty(data)
       THEN /\ ret' = "{}"
            /\ UNCHANGED <<current_position, entry_price>>
       ELSE /\ Abs(BaseOrderEffect.current_position) <= MaxPos
            /\ current_position' = BaseOrderEffect.current_position
            /\ entry_price' = BaseOrderEffect.entry_price
            /\ ret' = "order"
    /\ op' = "get_order"
    /\ gen' = None
    /\ recomputed' = FALSE
    /\ UNCHANGED <<kind, impl, data, last_signal, stop_loss_price,
                   pair_data, hedge_ratio, update_counter, pair_position,
                   fired, genCalls>>
    /\ UNCHANGED exceptStrat

\* PairTradingStrategy.get_order: the module imports `datetime` (the
\* module, not the class), so building the order dict raises
\* AttributeError at datetime.now(), before any position is written
PairGetOrder ==
    /\ kind = "pair"
    /\ ret' = IF last_signal = None \/ Empty(data) \/ Empty(pair_data)
              THEN "{}"
              ELSE "AttributeError"
    /\ op' = "get_order"
    /\ gen' = None
    /\ recomputed' = FALSE
    /\ UNCHANGED <<kind, impl, data, last_signal, current_position,
                   stop_loss_price, entry_price, pair_data, hedge_ratio,
                   update_counter, pair_position, fired, genCalls>>
    /\ UNCHANGED exceptStrat

\* BaseStrategy.reset
Reset ==
    /\ last_signal' = None
    /\ current_position' = 0
    /\ stop_loss_price' = NoNum
    /\ entry_price' = NoNum
    /\ fired' = None
    /\ op' = "reset"
    /\ ret' = None
    /\ gen' = None
    /\ recomputed' = FALSE
    /\ UNCHANGED <<kind, impl, data, pair_data, hedge_ratio, update_counter,
                   pair_position, genCalls>>
    /\ UNCHANGED exceptStrat

StratNext ==
    \/ \E d \in DataFor(kind) : OnData(d)
    \/ \E d \in DataFor(kind) : SetInitialData(d)
    \/ \E d \in PairData : SetPairData(d)
    \/ HasOrderSignal
    \/ GenerateSignal
    \/ BaseGetOrder
    \/ PairGetOrder
    \/ Reset

-----------------------------------------------------------------------------
(* RiskManager *)

\* an order dict: the keys check_order reads, each present or not
Order(q, p) == [quantity |-> q, price |-> p]
NoOrder == Order(NoNum, NoNum)
Orders ==
    {Order(Some(1), Some(100)), Order(Some(10), Some(10000)),
     Order(Some(10), Some(20000)), Order(Some(1), NoNum),
     Order(NoNum, Some(20000))}

\* the times of day explored: before the session, in it, in its last
\* minutes, after it
Times ==
    {config.trading_start_time - 1, config.trading_start_time,
     config.trading_end_time - close_out_minutes + 1,
     config.trading_end_time + 1}

\* order.get('price', 0)
PriceOf(order) == IF order.price = NoNum THEN 0 ELSE order.price[1]

\* an order whose quantity times reference price is above
\* max_position_size, and one that is not (an order that names no
\* quantity has no size)
OverSize(order) ==
    /\ order.quantity # NoNum
    /\ order.quantity[1] * PriceOf(order) > config.max_position_size
WithinSize(order) == ~OverSize(order)

\* mutant of DateAdvanced: the date is never seen to advance
DateAdvanced_Never(t, d) == FALSE

\* _check_date: today > self.current_date
DateAdvanced(t, d) == t > d

\* mutant of CountLimitHit: > for >=
CountLimitHit_Late(n) == n > config.max_daily_trades

\* check 1: self.daily_trades >= self.max_daily_trades
CountLimitHit(n) == n >= config.max_daily_trades

\* mutant of SizeExceeded: the size check dropped
SizeExceeded_Never(order) == FALSE

\* check 2: 'quantity' in order and
\* order['quantity'] * order.get('price', 0) > self.max_position_size
SizeExceeded(order) ==
    /\ order.quantity # NoNum
    /\ order.quantity[1] * PriceOf(order) > config.max_position_size

\* mutant of CountAfter: every call counted, approved or not
CountAfter_Always(n, approved) == n + 1

\* daily_trades after the checks: self.daily_trades += 1 on approval only
CountAfter(n, approved) == IF approved THEN n + 1 ELSE n

\* check_order's verdict on a count (after _check_date) and an order;
\* check 3 reads the clock and trading_end_time and tests nothing
Approved(n, order) == ~CountLimitHit(n) /\ ~SizeExceeded(order)

RiskInit ==
    /\ daily_trades = 0
    /\ current_date = 0
    /\ today = 0
    /\ now \in Times
    /\ rm_op = "__init__"
    /\ rm_order = NoOrder
    /\ rm_ret = None
    /\ rm_before = 0
    /\ rm_rolled = FALSE
    /\ rm_presented = 0

\* RiskManager.check_order
CheckOrder(order) ==
    LET rolled == DateAdvanced(today, current_date)
        n == IF rolled THEN 0 ELSE daily_trades
        ok == Approved(n, order)
    IN /\ current_date' = IF rolled THEN today ELSE current_date
       /\ daily_trades' = CountAfter(n, ok)
       /\ rm_ret' = IF ok THEN "True" ELSE "False"
       /\ rm_op' = "check_order"
       /\ rm_order' = order
       /\ rm_before' = daily_trades
       /\ rm_rolled' = (today > current_date)
       /\ rm_presented' =
              LET seen == IF today > current_date THEN 0 ELSE rm_presented
              IN IF WithinSize(order)
                 THEN Min2(seen + 1, config.max_daily_trades + 1)
                 ELSE seen
       /\ UNCHANGED <<today, now>>
       /\ UNCHANGED exceptRisk

\* RiskManager.get_daily_trades_left
GetDailyTradesLeft ==
    LET rolled == DateAdvanced(today, current_date)
        n == IF rolled THEN 0 ELSE daily_trades
    IN /\ current_date' = IF rolled THEN today ELSE current_date
       /\ daily_trades' = n
       /\ rm_ret' = IF config.max_daily_trades - n > 0
                    THEN config.max_daily_trades - n
                    ELSE 0
       /\ rm_op' = "get_daily_trades_left"
       /\ rm_order' = NoOrder
       /\ rm_before' = daily_trades
       /\ rm_rolled' = (today > current_date)
       /\ rm_presented' = IF today > current_date THEN 0 ELSE rm_presented
       /\ UNCHANGED <<today, now>>
       /\ UNCHANGED exceptRisk

\* the wall clock: the time of day moves on within a date
AdvanceTime ==
    /\ \E t \in Times : t > now /\ now' = t
    /\ rm_op' = "clock"
    /\ UNCHANGED <<daily_trades, current_date, today, rm_order, rm_ret,
                   rm_before, rm_rolled, rm_presented>>
    /\ UNCHANGED exceptRisk

\* the wall clock: midnight passes
AdvanceDate ==
    /\ today < MaxDay
    /\ today' = today + 1
    /\ now' \in Times
    /\ rm_op' = "clock"
    /\ UNCHANGED <<daily_trades, current_date, rm_order, rm_ret, rm_before,
                   rm_rolled, rm_presented>>
    /\ UNCHANGED exceptRisk

RiskNext ==
    \/ \E order \in Orders : CheckOrder(order)
    \/ GetDailyTradesLeft
    \/ AdvanceTime
    \/ AdvanceDate

-----------------------------------------------------------------------------
(* TradingEngine and the ledger it keeps *)

Tickers == {"GAZP", "SBER"}
\* the prices a fetch can return, and the stop levels the risk manager
\* can name for a position (NoNum: none)
Prices == {90, 100}
StopLevels == {NoNum, Some(95)}
\* self.config['quantities'].get(ticker, 1)
LotsOf(t) == 1

Flat == [quantity |-> 0, avg |-> NoNum]
Sign(n) == IF n > 0 THEN 1 ELSE IF n < 0 THEN 0 - 1 ELSE 0

\* Portfolio.update_position(ticker, signal, quantity, price): the fill
\* applied to a ledger entry.  Adding to a position averages the entry
\* price by quantity; reducing keeps it; reaching 0 clears it; crossing 0
\* opens the remainder at the fill price.
ApplyFill(pos, signal, q, price) ==
    LET delta == IF signal = "buy" THEN q ELSE 0 - q
        total == pos.quantity + delta
    IN IF total = 0 THEN Flat
       ELSE IF pos.quantity = 0 \/ Sign(total) # Sign(pos.quantity)
       THEN [quantity |-> total, avg |-> Some(Ratio(price, 1))]
       ELSE IF Sign(delta) = Sign(pos.quantity)
       THEN [quantity |-> total,
             avg |-> Some(Ratio(Abs(pos.quantity) * pos.avg[1][1]
                                    + q * price * pos.avg[1][2],
                                Abs(total) * pos.avg[1][2]))]
       ELSE [quantity |-> total, avg |-> pos.avg]

\* Portfolio.close_position(ticker)
ClosePosition(pos) == Flat

EngInit ==
    /\ positions = [t \in Tickers |-> Flat]
    /\ last_prices = [t \in Tickers |-> NoNum]
    /\ eng_daily_trades = 0
    /\ eng_op = "__init__"
    /\ submitted = [t \in Tickers |-> "none"]
    /\ fetched_price = [t \in Tickers |-> <<>>]

NoneFetched == [t \in Tickers |-> <<>>]
NoneSubmitted == [t \in Tickers |-> "none"]
Outcome(created) == IF created THEN "ok" ELSE "failed"

\* what get_current_price can return: None, or the last close or mid
\* price as a float
FetchResults == {NoNum} \cup {Some(p) : p \in Prices}

\* `if price:` on what get_current_price returned
Truthy(price) == price # NoNum /\ price[1] # 0

\* the price fetch without its `if price:` test
StoredPrice_Unchecked(old, price) == price

\* _trading_iteration, the price fetch for one ticker:
\* if price: self.last_prices[ticker] = price
StoredPrice(old, price) == IF Truthy(price) THEN price ELSE old

\* _trading_iteration, the price fetch over config['tickers']
UpdatePrices(fetched) ==
    /\ last_prices' = [t \in Tickers |->
                          StoredPrice(last_prices[t], fetched[t])]
    /\ fetched_price' = [t \in Tickers |-> <<fetched[t]>>]
    /\ eng_op' = "_trading_iteration"
    /\ submitted' = NoneSubmitted
    /\ UNCHANGED <<positions, eng_daily_trades>>
    /\ UNCHANGED exceptEng

\* whether _execute_signal updates the ledger: only `if order:`
LedgerUpdateAfterSignal(created) == created

\* _execute_signal(strategy, signal) for the strategy of ticker t;
\* risk_ok: the risk manager's verdict; created: whether create_order
\* returned an order
ExecuteSignal(t, signal, risk_ok, created) ==
    LET sent == last_prices[t] # NoNum /\ risk_ok
        filled == sent /\ LedgerUpdateAfterSignal(created)
        after == ApplyFill(positions[t], signal, LotsOf(t),
                           last_prices[t][1])
    IN /\ filled => (/\ Abs(after.quantity) <= MaxLedger
                     /\ eng_daily_trades < MaxEngineTrades)
       /\ positions' = IF filled THEN [positions EXCEPT ![t] = after]
                       ELSE positions
       /\ eng_daily_trades' = IF sent /\ created THEN eng_daily_trades + 1
                              ELSE eng_daily_trades
       /\ submitted' = IF sent
                       THEN [NoneSubmitted EXCEPT ![t] = Outcome(created)]
                       ELSE NoneSubmitted
       /\ fetched_price' = NoneFetched
       /\ eng_op' = "_execute_signal"
       /\ UNCHANGED last_prices
       /\ UNCHANGED exceptEng

\* the stop test of _check_stop_losses on a ledger entry
StopBreached(pos, price, stop) ==
    /\ pos.quantity # 0
    /\ price # NoNum
    /\ stop # NoNum
    /\ \/ pos.quantity > 0 /\ price[1] <= stop[1]
       \/ pos.quantity < 0 /\ price[1] >= stop[1]

\* whether _check_stop_losses and _close_all_positions close the ledger
\* entry after create_order: always, its result is not looked at
LedgerCloseAfterOrder(created) == TRUE

\* _check_stop_losses; stops: what get_stop_loss returns per ticker;
\* created: whether create_order returned an order, per ticker
CheckStopLosses(stops, created) ==
    LET hit(t) == StopBreached(positions[t], last_prices[t], stops[t])
    IN /\ positions' = [t \in Tickers |->
                           IF hit(t) /\ LedgerCloseAfterOrder(created[t])
                           THEN ClosePosition(positions[t])
                           ELSE positions[t]]
       /\ submitted' = [t \in Tickers |->
                           IF hit(t) THEN Outcome(created[t]) ELSE "none"]
       /\ fetched_price' = NoneFetched
       /\ eng_op' = "_check_stop_losses"
       /\ UNCHANGED <<last_prices, eng_daily_trades>>
       /\ UNCHANGED exceptEng

\* _close_all_positions
CloseAllPositions(created) ==
    LET due(t) == positions[t].quantity # 0 /\ last_prices[t] # NoNum
    IN /\ positions' = [t \in Tickers |->
                           IF due(t) /\ LedgerCloseAfterOrder(created[t])
                           THEN ClosePosition(positions[t])
                           ELSE positions[t]]
       /\ submitted' = [t \in Tickers |->
                           IF due(t) THEN Outcome(created[t]) ELSE "none"]
       /\ fetched_price' = NoneFetched
       /\ eng_daily_trades' = 0
       /\ eng_op' = "_close_all_positions"
       /\ UNCHANGED last_prices
       /\ UNCHANGED exceptEng

EngNext ==
    \/ \E fetched \in [Tickers -> FetchResults] :
           UpdatePrices(fetched) /\ UNCHANGED loopVars
    \/ \E t \in Tickers, signal \in {"buy", "sell"},
          risk_ok \in BOOLEAN, created \in BOOLEAN :
           ExecuteSignal(t, signal, risk_ok, created) /\ UNCHANGED loopVars
    \/ \E stops \in [Tickers -> StopLevels], created \in [Tickers -> BOOLEAN] :
           CheckStopLosses(stops, created) /\ UNCHANGED loopVars
    \/ \E created \in [Tickers -> BOOLEAN] :
           CloseAllPositions(created) /\ UNCHANGED loopVars

-----------------------------------------------------------------------------
(* TradingEngine.start(): the main loop, one step per stage of a cycle *)

\* the times of day the loop is followed through, in order: before the
\* session, its start, inside the closing window, its end, after it
LoopTimes ==
    <<config.trading_start_time - 1, config.trading_start_time,
      config.trading_end_time - close_out_minutes + 1,
      config.trading_end_time, config.trading_end_time + 1>>

\* the clock after a sleep: where it was, or the next time followed
AfterSleep(t) ==
    {t} \cup {LoopTimes[i + 1] :
                 i \in {j \in 1..(Len(LoopTimes) - 1) : LoopTimes[j] = t}}

\* _is_trading_time
IsTradingTime(t) ==
    config.trading_start_time <= t /\ t <= config.trading_end_time

\* _is_closing_time: from 5 minutes before trading_end_time to it
IsClosingTime(t) ==
    t >= config.trading_end_time - close_out_minutes
        /\ t <= config.trading_end_time

\* the stages of a cycle, inside the try block
InCycle == {"fetch", "signals", "stops", "closing", "sleep"}
\* the stages in which a call the cycle makes can raise: a strategy's
\* generate_signal(), the risk manager, the order manager, the config
\* (get_current_price catches what the price fetch raises)
CanRaise == {"signals", "stops", "closing", "sleep"}

\* mutant of AfterException: the exception leaves the loop
AfterException_Leaves == "done"

\* where start() goes when the cycle raised an Exception: the handler
\* logs and sleeps 5 seconds, inside the loop
AfterException == "cooldown"

\* what stop() does to the ledger: nothing, it only clears is_running
StopLedger(ledger) == ledger

\* get_stop_loss(ticker, position): the level the cycle has for the
\* ticker if it lies on the losing side of the position's entry price
\* (below it for a long, above it for a short), and none otherwise
GetStopLoss(pos, level) ==
    IF level = NoNum \/ pos.quantity = 0 THEN NoNum
    ELSE IF pos.quantity > 0 /\ level[1] * pos.avg[1][2] < pos.avg[1][1]
    THEN level
    ELSE IF pos.quantity < 0 /\ level[1] * pos.avg[1][2] > pos.avg[1][1]
    THEN level
    ELSE NoNum

\* the stop levels of the ledger's positions, as _check_stop_losses
\* gets them
CurrentStops == [t \in Tickers |-> GetStopLoss(positions[t], stops_at[t])]

clockFrame ==
    <<daily_trades, current_date, today, rm_op, rm_order, rm_ret, rm_before,
      rm_rolled, rm_presented>>

LoopInit ==
    /\ is_running = FALSE
    /\ trading_active = FALSE
    /\ pc = "idle"
    /\ todo = {}
    /\ liquidated = FALSE
    /\ raised = FALSE
    /\ stops_at = [t \in Tickers |-> NoNum]
    /\ initialized = FALSE
    /\ ordered = [t \in Tickers |-> None]

\* initialize_strategies(), called before start() by the module's own
\* entry point (and not by main()): a strategy per ticker is created
InitializeStrategies ==
    /\ pc = "idle"
    /\ ~initialized
    /\ initialized' = TRUE
    /\ eng_op' = "initialize_strategies"
    /\ UNCHANGED <<is_running, trading_active, pc, todo, liquidated, raised,
                   stops_at, ordered>>
    /\ UNCHANGED <<positions, last_prices, eng_daily_trades, submitted,
                   fetched_price>>
    /\ UNCHANGED exceptEng

\* start(), up to the loop
Start ==
    /\ pc = "idle"
    /\ is_running' = TRUE
    /\ pc' = "top"
    /\ eng_op' = "start"
    /\ UNCHANGED <<trading_active, todo, liquidated, raised, stops_at,
                   initialized, ordered>>
    /\ UNCHANGED <<positions, last_prices, eng_daily_trades, submitted,
                   fetched_price>>
    /\ UNCHANGED exceptEng

\* while self.is_running: ... self.trading_active = _is_trading_time(now)
LoopTop ==
    /\ pc = "top"
    /\ IF is_running
       THEN /\ trading_active' = IsTradingTime(now)
            /\ pc' = IF IsTradingTime(now) THEN "fetch" ELSE "closing"
       ELSE /\ pc' = "done"
            /\ UNCHANGED trading_active
    /\ ordered' = IF is_running /\ IsTradingTime(now) THEN ordered
                  ELSE [t \in Tickers |-> None]
    /\ eng_op' = "cycle"
    /\ submitted' = NoneSubmitted
    /\ fetched_price' = NoneFetched
    /\ UNCHANGED <<is_running, todo, liquidated, raised, stops_at,
                   initialized>>
    /\ UNCHANGED <<positions, last_prices, eng_daily_trades>>
    /\ UNCHANGED exceptEng

\* _trading_iteration: the price fetch
LoopFetch ==
    /\ pc = "fetch"
    /\ \E fetched \in [Tickers -> FetchResults] :
           UpdatePrices(fetched)
    /\ pc' = "signals"
    /\ todo' = Tickers
    /\ stops_at' \in [Tickers -> StopLevels]
    /\ UNCHANGED <<is_running, trading_active, liquidated, raised,
                   initialized, ordered>>

\* _trading_iteration: the next strategy is asked for a signal; with a
\* signal, a known price and can_trade's leave, _execute_signal runs.
\* Without initialize_strategies() the lookup of the strategies raises
\* KeyError before any strategy is asked (LoopRaise).
LoopSignal ==
    /\ pc = "signals"
    /\ initialized
    /\ \E t \in todo :
           /\ \/ /\ last_prices[t] # NoNum
                 /\ \E signal \in {"buy", "sell"}, risk_ok \in BOOLEAN,
                       created \in BOOLEAN :
                        /\ ExecuteSignal(t, signal, risk_ok, created)
                        /\ ordered' =
                               [ordered EXCEPT
                                   ![t] = IF risk_ok /\ created
                                          THEN signal ELSE None]
              \/ /\ eng_op' = "_trading_iteration"
                 /\ submitted' = NoneSubmitted
                 /\ fetched_price' = NoneFetched
                 /\ ordered' = [ordered EXCEPT ![t] = None]
                 /\ UNCHANGED <<positions, last_prices, eng_daily_trades>>
                 /\ UNCHANGED exceptEng
           /\ todo' = todo \ {t}
           /\ pc' = IF todo \ {t} = {} THEN "stops" ELSE "signals"
    /\ UNCHANGED <<is_running, trading_active, liquidated, raised, stops_at,
                   initialized>>

\* _trading_iteration: _check_stop_losses, then the daily limit test
LoopStops ==
    /\ pc = "stops"
    /\ \E created \in [Tickers -> BOOLEAN] :
           CheckStopLosses(CurrentStops, created)
    /\ trading_active' =
           (trading_active /\ eng_daily_trades < config.max_daily_trades)
    /\ pc' = "closing"
    /\ UNCHANGED <<is_running, todo, liquidated, raised, stops_at,
                   initialized, ordered>>

\* if self._is_closing_time(current_time): self._close_all_positions()
LoopClosing ==
    /\ pc = "closing"
    /\ IF IsClosingTime(now)
       THEN /\ \E created \in [Tickers -> BOOLEAN] :
                   CloseAllPositions(created)
            /\ liquidated' = TRUE
       ELSE /\ eng_op' = "cycle"
            /\ submitted' = NoneSubmitted
            /\ fetched_price' = NoneFetched
            /\ UNCHANGED <<positions, last_prices, eng_daily_trades>>
            /\ UNCHANGED exceptEng
            /\ UNCHANGED liquidated
    /\ pc' = "sleep"
    /\ UNCHANGED <<is_running, trading_active, todo, raised, stops_at,
                   initialized, ordered>>

\* time.sleep(self.config['fetch_interval'])
LoopSleep ==
    /\ pc = "sleep"
    /\ now' \in AfterSleep(now)
    /\ pc' = "top"
    /\ eng_op' = "sleep"
    /\ submitted' = NoneSubmitted
    /\ fetched_price' = NoneFetched
    /\ raised' = FALSE
    /\ UNCHANGED <<is_running, trading_active, todo, liquidated, stops_at,
                   initialized, ordered>>
    /\ UNCHANGED <<positions, last_prices, eng_daily_trades>>
    /\ UNCHANGED <<stratVars, omVars, indVars, clockFrame>>

\* a call made by the cycle raises an Exception: except Exception
LoopRaise ==
    /\ pc \in CanRaise
    /\ pc' = AfterException
    /\ eng_op' = "exception"
    /\ submitted' = NoneSubmitted
    /\ fetched_price' = NoneFetched
    /\ raised' = TRUE
    /\ ordered' = [t \in Tickers |->
                      IF pc = "signals" /\ t \in todo THEN None
                      ELSE ordered[t]]
    /\ todo' = {}
    /\ UNCHANGED <<is_running, trading_active, liquidated, stops_at,
                   initialized>>
    /\ UNCHANGED <<positions, last_prices, eng_daily_trades>>
    /\ UNCHANGED exceptEng

\* the handler's time.sleep(5), then the loop goes on
LoopCooldown ==
    /\ pc = "cooldown"
    /\ now' \in AfterSleep(now)
    /\ pc' = "top"
    /\ eng_op' = "sleep"
    /\ submitted' = NoneSubmitted
    /\ fetched_price' = NoneFetched
    /\ UNCHANGED <<is_running, trading_active, todo, liquidated, raised,
                   stops_at, initialized, ordered>>
    /\ UNCHANGED <<positions, last_prices, eng_daily_trades>>
    /\ UNCHANGED <<stratVars, omVars, indVars, clockFrame>>

\* stop(), called from another thread, or by the loop's handler of
\* KeyboardInterrupt raised inside the cycle
Stop ==
    /\ pc # "idle"
    /\ is_running
    /\ is_running' = FALSE
    /\ positions' = StopLedger(positions)
    /\ UNCHANGED pc
    /\ eng_op' = "stop"
    /\ submitted' = NoneSubmitted
    /\ fetched_price' = NoneFetched
    /\ UNCHANGED <<trading_active, todo, liquidated, raised, stops_at,
                   initialized, ordered>>
    /\ UNCHANGED <<last_prices, eng_daily_trades>>
    /\ UNCHANGED exceptEng

\* except KeyboardInterrupt: self.stop(), and back to the loop test
LoopInterrupt ==
    /\ pc \in InCycle
    /\ is_running' = FALSE
    /\ positions' = StopLedger(positions)
    /\ pc' = "top"
    /\ eng_op' = "stop"
    /\ submitted' = NoneSubmitted
    /\ fetched_price' = NoneFetched
    /\ ordered' = [t \in Tickers |-> None]
    /\ todo' = {}
    /\ UNCHANGED <<trading_active, liquidated, raised, stops_at,
                   initialized>>
    /\ UNCHANGED <<last_prices, eng_daily_trades>>
    /\ UNCHANGED exceptEng

LoopNext ==
    \/ InitializeStrategies
    \/ Start
    \/ LoopTop
    \/ LoopFetch
    \/ LoopSignal
    \/ LoopStops
    \/ LoopClosing
    \/ LoopSleep
    \/ LoopRaise
    \/ LoopCooldown
    \/ Stop
    \/ LoopInterrupt

-----------------------------------------------------------------------------
(* OrderManager *)

\* the daily order limit written into send_order
daily_order_limit == 200

\* int(x) of a fraction: truncation toward zero
Trunc(r) ==
    IF r[1] >= 0 THEN r[1] \div r[2] ELSE 0 - ((0 - r[1]) \div r[2])

\* the order dict of BaseStrategy.get_order for a signal
SingleOrder(sig) ==
    [signal |-> sig, quantity |-> quantity, pair_quantity |-> NoNum]

\* the order dict of PairTradingStrategy.get_order for a signal and a hedge
\* ratio: 'pair_quantity': int(self.quantity * self.hedge_ratio)
PairOrder(sig, hr) ==
    [signal |-> sig, quantity |-> quantity,
     pair_quantity |-> Some(Trunc(<<quantity * hr[1], hr[2]>>))]

\* 'pair_instrument' in order
IsPairOrder(order) == order.pair_quantity # NoNum

\* OrderManager._get_side
GetSide(signal, is_main) ==
    IF signal = "buy_pair" THEN (IF is_main THEN "buy" ELSE "sell")
    ELSE IF signal = "sell_pair" THEN (IF is_main THEN "sell" ELSE "buy")
    ELSE IF signal = "close_pair" THEN "close"
    ELSE signal

\* order_data['side'].upper()
Upper(side) ==
    CASE side = "buy" -> "BUY"
      [] side = "sell" -> "SELL"
      [] side = "close" -> "CLOSE"
      [] OTHER -> side

\* _send_single_order: the request posted and whether the venue answered
\* 200 (anything else, or an exception, is a refusal)
Leg(instrument, side, lots, accepted) ==
    [ticker |-> instrument, side |-> Upper(side), lots |-> lots,
     accepted |-> accepted]

Count(legs) == Cardinality({i \in DOMAIN legs : legs[i].accepted})

\* what send_order returns for a pair order from the answers to its legs
PairResult(success1, success2) == success1 /\ success2

OmInit ==
    /\ orders_sent = 0
    /\ daily_orders = 0
    /\ om_op = "__init__"
    /\ om_order = SingleOrder(None)
    /\ om_ret = None
    /\ om_legs = <<>>

\* OrderManager.send_order; accepted1, accepted2: the venue's answers to
\* the requests posted (the second is posted whatever the first answer)
SendOrder(order, accepted1, accepted2) ==
    LET legs ==
            IF daily_orders >= daily_order_limit THEN <<>>
            ELSE IF IsPairOrder(order)
            THEN <<Leg("main", GetSide(order.signal, TRUE),
                       order.quantity, accepted1),
                   Leg("pair", GetSide(order.signal, FALSE),
                       order.pair_quantity[1], accepted2)>>
            ELSE <<Leg("main",
                       IF order.signal = "buy" THEN "buy" ELSE "sell",
                       order.quantity, accepted1)>>
    IN /\ om_legs' = legs
       /\ orders_sent' = orders_sent + Count(legs)
       /\ daily_orders' = daily_orders + Count(legs)
       /\ om_ret' = IF legs = <<>> THEN "False"
                    ELSE IF IsPairOrder(order)
                    THEN (IF PairResult(accepted1, accepted2)
                          THEN "True" ELSE "False")
                    ELSE (IF accepted1 THEN "True" ELSE "False")
       /\ om_op' = "send_order"
       /\ om_order' = order
       /\ UNCHANGED exceptOm

\* the lists of open positions close_all_positions is given: dicts with
\* 'instrument' and a nonzero 'quantity'
OpenPositions ==
    UNION {[1..n -> [instrument : {"main", "pair"}, quantity : {0 - 1, 2}]] :
               n \in 0..MaxOpen}

\* OrderManager.close_all_positions; accepted: the venue's answers to the
\* requests posted, one per position
close_all_positions(open, accepted) ==
    LET legs == [i \in 1..Len(open) |->
                    Leg(open[i].instrument,
                        IF open[i].quantity > 0 THEN "sell" ELSE "buy",
                        Abs(open[i].quantity), accepted[i])]
    IN /\ om_legs' = legs
       /\ orders_sent' = orders_sent + Count(legs)
       /\ daily_orders' = daily_orders + Count(legs)
       /\ om_ret' = IF Count(legs) = Len(legs) THEN "True" ELSE "False"
       /\ om_op' = "close_all_positions"
       /\ UNCHANGED om_order
       /\ UNCHANGED exceptOm

\* OrderManager.reset_daily_counter
ResetDailyCounter ==
    /\ daily_orders' = 0
    /\ om_op' = "reset_daily_counter"
    /\ om_ret' = None
    /\ om_legs' = <<>>
    /\ UNCHANGED <<orders_sent, om_order>>
    /\ UNCHANGED exceptOm

-----------------------------------------------------------------------------
(* indicators/technical.py: floats as exact fractions, arrays as sequences
   (index i of the code is i + 1 here) *)

NaN == <<0, 0>>
IsNaN(a) == a = NaN
Num(x) == <<x, 1>>
RAdd(a, b) ==
    IF IsNaN(a) \/ IsNaN(b) THEN NaN
    ELSE Ratio(a[1] * b[2] + b[1] * a[2], a[2] * b[2])
RNeg(a) == IF IsNaN(a) THEN NaN ELSE <<0 - a[1], a[2]>>
RSub(a, b) == RAdd(a, RNeg(b))
RMul(a, b) ==
    IF IsNaN(a) \/ IsNaN(b) THEN NaN ELSE Ratio(a[1] * b[1], a[2] * b[2])
\* a / b for b # 0
RDiv(a, b) ==
    IF IsNaN(a) \/ IsNaN(b) THEN NaN
    ELSE IF b[1] > 0 THEN Ratio(a[1] * b[2], a[2] * b[1])
    ELSE Ratio(0 - a[1] * b[2], 0 - a[2] * b[1])
RECURSIVE RSum(_)
RSum(s) == IF s = <<>> THEN Num(0) ELSE RAdd(Head(s), RSum(Tail(s)))
\* np.mean of a non-empty array
RMean(s) == RDiv(RSum(s), Num(Len(s)))
Ints(s) == [i \in 1..Len(s) |-> Num(s[i])]
Max2(a, b) == IF a >= b THEN a ELSE b

\* what every indicator returns on too short an input: np.array([])
EmptyArray == <<>>

\* calculate_sma
calculate_sma(xs, period) ==
    IF Len(xs) < period THEN EmptyArray
    ELSE [i \in 1..Len(xs) |->
             IF i < period THEN NaN
             ELSE RMean(SubSeq(xs, i - period + 1, i))]

RECURSIVE EmaAt(_, _, _)
EmaAt(xs, period, i) ==
    IF i < period THEN NaN
    ELSE IF i = period THEN RMean(SubSeq(xs, 1, period))
    ELSE LET prev == EmaAt(xs, period, i - 1)
         IN RAdd(RMul(RSub(xs[i], prev), <<2, period + 1>>), prev)

\* calculate_ema
calculate_ema(xs, period) ==
    IF Len(xs) < period THEN EmptyArray
    ELSE [i \in 1..Len(xs) |-> EmaAt(xs, period, i)]

\* np.diff, and its positive and negative parts
Deltas(xs) == [k \in 1..(Len(xs) - 1) |-> xs[k + 1] - xs[k]]
Gains(xs) == [k \in 1..(Len(xs) - 1) |-> Num(Max2(Deltas(xs)[k], 0))]
Losses(xs) == [k \in 1..(Len(xs) - 1) |-> Num(Max2(0 - Deltas(xs)[k], 0))]

\* avg_gain / avg_loss of calculate_rsi over the moves ms: the plain mean
\* of the first period moves, then Wilder's smoothing
RECURSIVE WilderAt(_, _, _)
WilderAt(ms, period, i) ==
    IF i <= period THEN NaN
    ELSE IF i = period + 1 THEN RMean(SubSeq(ms, 1, period))
    ELSE RDiv(RAdd(RMul(WilderAt(ms, period, i - 1), Num(period - 1)),
                   ms[i - 1]),
              Num(period))

AvgGain(xs, period, i) == WilderAt(Gains(xs), period, i)
AvgLoss(xs, period, i) == WilderAt(Losses(xs), period, i)

\* rs[i]: avg_gain / avg_loss, or 100 where avg_loss is 0
RsAt(xs, period, i) ==
    IF i <= period THEN NaN
    ELSE IF AvgLoss(xs, period, i) # Num(0)
    THEN RDiv(AvgGain(xs, period, i), AvgLoss(xs, period, i))
    ELSE Num(100)

\* rsi = 100 - (100 / (1 + rs))
RsiOf(rs) == RSub(Num(100), RDiv(Num(100), RAdd(Num(1), rs)))

\* calculate_rsi
calculate_rsi(xs, period) ==
    IF Len(xs) <= period THEN EmptyArray
    ELSE [i \in 1..Len(xs) |-> RsiOf(RsAt(xs, period, i))]

\* the true range of bar i
TrueRange(bars, i) ==
    IF i = 1 THEN bars[1].high - bars[1].low
    ELSE Max2(bars[i].high - bars[i].low,
              Max2(Abs(bars[i].high - bars[i - 1].close),
                   Abs(bars[i].low - bars[i - 1].close)))

RECURSIVE AtrAt(_, _, _)
AtrAt(bars, period, i) ==
    IF i < period THEN NaN
    ELSE IF i = period
    THEN RMean([k \in 1..period |-> Num(TrueRange(bars, k))])
    ELSE RDiv(RAdd(RMul(AtrAt(bars, period, i - 1), Num(period - 1)),
                   Num(TrueRange(bars, i))),
              Num(period))

\* calculate_atr
calculate_atr(bars, period) ==
    IF Len(bars) <= period THEN EmptyArray
    ELSE [i \in 1..Len(bars) |-> AtrAt(bars, period, i)]

\* np.std(window) ** 2: the population variance
Variance(w) ==
    RSub(RMean([k \in 1..Len(w) |-> RMul(w[k], w[k])]),
         RMul(RMean(w), RMean(w)))

\* calculate_bollinger_bands with std_dev = 2: a band is the middle plus or
\* minus 2 * std, held as the middle and (2 * std) ** 2
calculate_bollinger_bands(xs, period) ==
    IF Len(xs) < period
    THEN [upper |-> EmptyArray, middle |-> EmptyArray, lower |-> EmptyArray]
    ELSE LET middle == calculate_sma(xs, period)
             width2(i) ==
                 IF i < period THEN NaN
                 ELSE RMul(Num(4),
                           Variance(SubSeq(xs, i - period + 1, i)))
         IN [upper |-> [i \in 1..Len(xs) |->
                           [middle |-> middle[i], plus2 |-> width2(i)]],
             middle |-> middle,
             lower |-> [i \in 1..Len(xs) |->
                           [middle |-> middle[i], minus2 |-> width2(i)]]]

\* calculate_macd
calculate_macd(xs, fast_period, slow_period, signal_period) ==
    IF Len(xs) < slow_period + signal_period
    THEN [macd |-> EmptyArray, signal |-> EmptyArray,
          histogram |-> EmptyArray]
    ELSE LET n == Len(xs)
             ema_fast == calculate_ema(xs, fast_period)
             ema_slow == calculate_ema(xs, slow_period)
             macd == [i \in 1..n |->
                         IF i < slow_period THEN NaN
                         ELSE RSub(ema_fast[i], ema_slow[i])]
             valid == {i \in 1..n : ~IsNaN(macd[i])}
             start == CHOOSE i \in valid : \A j \in valid : i <= j
             line == calculate_ema(SubSeq(macd, start, n), signal_period)
             signal ==
                 [i \in 1..n |->
                     IF Cardinality(valid) > signal_period
                           /\ i >= start /\ i - start + 1 <= Len(line)
                     THEN line[i - start + 1]
                     ELSE IF i < slow_period + signal_period - 1 THEN NaN
                     ELSE Num(0)]
         IN [macd |-> macd, signal |-> signal,
             histogram |-> [i \in 1..n |-> RSub(macd[i], signal[i])]]

\* the series and periods the indicators are applied to
Values == {1, 2, 3}
Series == UNION {[1..n -> Values] : n \in 0..MaxLen}
Periods == 1..MaxPeriod

IndInit ==
    /\ ind_name = "none"
    /\ ind_data \in Series
    /\ ind_period \in Periods
    /\ ind_out = EmptyArray

indInputs == <<ind_data, ind_period>>

CalcSma ==
    /\ ind_name' = "calculate_sma"
    /\ ind_out' = calculate_sma(Ints(ind_data), ind_period)
    /\ UNCHANGED indInputs
    /\ UNCHANGED exceptInd

CalcEma ==
    /\ ind_name' = "calculate_ema"
    /\ ind_out' = calculate_ema(Ints(ind_data), ind_period)
    /\ UNCHANGED indInputs
    /\ UNCHANGED exceptInd

CalcRsi ==
    /\ ind_name' = "calculate_rsi"
    /\ ind_out' = calculate_rsi(ind_data, ind_period)
    /\ UNCHANGED indInputs
    /\ UNCHANGED exceptInd

CalcAtr ==
    /\ ind_name' = "calculate_atr"
    /\ ind_out' = calculate_atr(FlatBars(ind_data), ind_period)
    /\ UNCHANGED indInputs
    /\ UNCHANGED exceptInd

CalcBollinger ==
    /\ ind_name' = "calculate_bollinger_bands"
    /\ ind_out' = calculate_bollinger_bands(Ints(ind_data), ind_period)
    /\ UNCHANGED indInputs
    /\ UNCHANGED exceptInd

\* fast, slow and signal periods p, p + 1, p
CalcMacd ==
    /\ ind_name' = "calculate_macd"
    /\ ind_out' = calculate_macd(Ints(ind_data), ind_period, ind_period + 1,
                                 ind_period)
    /\ UNCHANGED indInputs
    /\ UNCHANGED exceptInd

IndNext ==
    \/ CalcSma
    \/ CalcEma
    \/ CalcRsi
    \/ CalcAtr
    \/ CalcBollinger
    \/ CalcMacd

-----------------------------------------------------------------------------
(* Specifications: one strategy object; the risk manager; the engine *)

Idle == kind = "rsi" /\ now = config.trading_start_time
\* no indicator called: the empty series, period 1
IndIdle == IndInit /\ ind_data = <<>> /\ ind_period = 1

Init ==
    /\ StratInit /\ RiskInit /\ EngInit /\ OmInit /\ LoopInit /\ IndIdle
    /\ now = config.trading_start_time
Next == StratNext
Spec == Init /\ [][Next]_vars

RiskSpecInit ==
    /\ StratInit /\ RiskInit /\ EngInit /\ OmInit /\ LoopInit /\ IndIdle
    /\ kind = "rsi"
RiskSpec == RiskSpecInit /\ [][RiskNext]_vars

EngineSpecInit ==
    StratInit /\ RiskInit /\ EngInit /\ OmInit /\ LoopInit /\ IndIdle /\ Idle
EngineSpec == EngineSpecInit /\ [][EngNext]_vars

\* the caller of a pair strategy hands the order manager the order of
\* get_order's form for the signal has_order_signal() last fired
SubmitPairOrder ==
    /\ kind = "pair"
    /\ last_signal \in {"buy_pair", "sell_pair", "close_pair"}
    /\ orders_sent < MaxSent
    /\ \E accepted1 \in BOOLEAN, accepted2 \in BOOLEAN :
           SendOrder(PairOrder(last_signal, hedge_ratio),
                     accepted1, accepted2)

LoopSpecInit ==
    /\ StratInit /\ RiskInit /\ EngInit /\ OmInit /\ LoopInit /\ IndIdle
    /\ kind = "rsi"
    /\ now = LoopTimes[1]
LoopSpec == LoopSpecInit /\ [][LoopNext]_vars

IndicatorSpecInit ==
    /\ StratInit /\ RiskInit /\ EngInit /\ OmInit /\ LoopInit /\ IndInit
    /\ Idle
IndicatorSpec == IndicatorSpecInit /\ [][IndNext]_vars

\* the keys of BaseStrategy.get_order's order dict that check_order reads
StrategyOrder ==
    Order(Some(quantity), Some(LastClose(Frame(data))))

\* the order get_order returned is presented to RiskManager.check_order
RiskGate ==
    /\ kind # "pair"
    /\ op = "get_order"
    /\ ret = "order"
    /\ CheckOrder(StrategyOrder)

\* a RiskManager that has approved all but one of the day's
\* max_daily_trades orders
RiskNearLimit ==
    /\ daily_trades = config.max_daily_trades - 1
    /\ current_date = 0
    /\ today = 0
    /\ now = config.trading_start_time
    /\ rm_op = "check_order"
    /\ rm_order = Order(Some(1), Some(100))
    /\ rm_ret = "True"
    /\ rm_before = daily_trades - 1
    /\ rm_rolled = FALSE
    /\ rm_presented = daily_trades

RetrySpecInit ==
    StratInit /\ RiskNearLimit /\ EngInit /\ OmInit /\ LoopInit /\ IndIdle
RetrySpecNext == StratNext \/ RiskGate
RetrySpec == RetrySpecInit /\ [][RetrySpecNext]_vars

\* an OrderManager that has sent all but MaxSent of a day's
\* daily_order_limit orders, the last a single 'buy'
OmNearLimit ==
    /\ orders_sent = daily_order_limit - MaxSent
    /\ daily_orders = daily_order_limit - MaxSent
    /\ om_op = "send_order"
    /\ om_order = SingleOrder("buy")
    /\ om_ret = "True"
    /\ om_legs = <<Leg("main", "buy", quantity, TRUE)>>

\* the hedge ratios of the pair orders handed to the order manager
OrderHedgeRatios == {<<1, 1>>, <<3, 2>>, <<0 - 1, 2>>}

OrderSpecInit ==
    /\ StratInit /\ RiskInit /\ EngInit /\ OmNearLimit /\ LoopInit /\ IndIdle
    /\ Idle
OrderSpecNext ==
    \/ /\ orders_sent < daily_order_limit + MaxOver
       /\ \E signal \in {"buy", "sell"}, accepted \in BOOLEAN :
              SendOrder(SingleOrder(signal), accepted, accepted)
    \/ /\ orders_sent < daily_order_limit + MaxOver
       /\ \E signal \in {"buy_pair", "sell_pair", "close_pair"},
             hr \in OrderHedgeRatios,
             accepted1 \in BOOLEAN, accepted2 \in BOOLEAN :
              SendOrder(PairOrder(signal, hr), accepted1, accepted2)
    \/ /\ orders_sent < daily_order_limit + MaxOver
       /\ \E open \in OpenPositions :
              \E accepted \in [1..Len(open) -> BOOLEAN] :
                  close_all_positions(open, accepted)
    \/ ResetDailyCounter
OrderSpec == OrderSpecInit /\ [][OrderSpecNext]_vars

PairOrderSpecNext == StratNext \/ SubmitPairOrder
PairOrderSpec == Init /\ [][PairOrderSpecNext]_vars

-----------------------------------------------------------------------------
(* Claims about the strategies *)

GenOps == {"has_order_signal", "generate_signal"}

\* has_order_signal() returns True only for a non-null signal other than
\* the one it last returned True for
EdgeStep ==
    (op' = "has_order_signal" /\ ret' = "True")
        => (IsSignal(gen') /\ gen' # fired)

\* two consecutive has_order_signal() calls on unchanged data do not both
\* return True
UnchangedDataStep ==
    (/\ op = "has_order_signal" /\ ret = "True"
     /\ op' = "has_order_signal"
     /\ data' = data /\ pair_data' = pair_data)
        => ret' # "True"

\* two consecutive has_order_signal() calls in which generate_signal()
\* yields the same value do not both return True
SameSignalStep ==
    (/\ op = "has_order_signal" /\ ret = "True"
     /\ op' = "has_order_signal"
     /\ gen' = gen)
        => ret' # "True"

\* C1 as stated: once has_order_signal() has returned True for a signal s
\* it does not return True again until generate_signal() has produced a
\* non-null value other than s, and two consecutive calls on unchanged
\* data never both return True.
C1_AsStated == [][EdgeStep /\ UnchangedDataStep]_vars

\* C1 amended: once has_order_signal() has returned True for a signal s it
\* does not return True again until generate_signal() has produced a
\* non-null value other than s; two consecutive calls for which
\* generate_signal() yields the same value never both return True.
C1_EdgeTrigger == [][EdgeStep /\ SameSignalStep]_vars

\* the dedup has acted: a call computed the signal already fired and
\* returned False
C1_Witness ==
    /\ op = "has_order_signal"
    /\ ret = "False"
    /\ IsSignal(gen)
    /\ gen = fired

\* C2: generate_signal() never proposes re-entering a held direction and
\* never exits an unheld position: RSIMeanReversion never returns 'buy'
\* while long nor 'sell' while short; PairTradingStrategy never returns
\* 'buy_pair'/'sell_pair' while current_position != 0 nor 'close_pair'
\* while current_position == 0 -- in the state of every call made, and
\* for the pair decision on the strategy's data at any position.
C2_NoReentryNoEmptyExit ==
    /\ (kind = "rsi" /\ op \in GenOps)
           => /\ ~(gen = "buy" /\ current_position > 0)
              /\ ~(gen = "sell" /\ current_position < 0)
    /\ (kind = "pair" /\ op \in GenOps)
           => /\ gen \in {"buy_pair", "sell_pair"} => current_position = 0
              /\ gen = "close_pair" => current_position # 0
    /\ kind = "pair"
           => \A pos \in (0 - MaxPos)..MaxPos :
                  LET sig == PairDecision(
                                 ZScore(Frame(data), Frame(pair_data),
                                        hedge_ratio), pos)
                  IN /\ sig \in {"buy_pair", "sell_pair"} => pos = 0
                     /\ sig = "close_pair" => pos # 0

\* a flat pair strategy whose z-score is inside the exit band was asked
\* for a signal and proposed no exit
C2_Witness ==
    /\ kind = "pair"
    /\ op \in GenOps
    /\ ~Empty(data) /\ ~Empty(pair_data)
    /\ current_position = 0
    /\ AbsLess(ZScore(Frame(data), Frame(pair_data), hedge_ratio),
               params.exit_z)
    /\ gen = None

\* C3 as stated: current_position == 0 implies entry_price is None and
\* stop_loss_price is None, after any sequence of calls.
C3_FlatMeansNoEntry ==
    current_position = 0 => (entry_price = NoNum /\ stop_loss_price = NoNum)

\* C4: with hedge_ratio_update = N >= 1 the hedge ratio is re-estimated on
\* exactly every N-th generate_signal() call that has data, and on no
\* other; update_counter is 0 after a re-estimate and stays in 0..N-1.
C4_HedgeRatioCadence ==
    kind = "pair"
        => /\ update_counter \in 0..(hedge_ratio_update - 1)
           /\ op \in GenOps
                  => (recomputed <=> (/\ ~Empty(data) /\ ~Empty(pair_data)
                                      /\ genCalls = 0))
           /\ recomputed => update_counter = 0

\* a call re-estimated the hedge ratio and changed it
C4_Witness ==
    /\ kind = "pair"
    /\ op \in GenOps
    /\ recomputed
    /\ update_counter = 0
    /\ hedge_ratio # <<1, 1>>

\* C17 as stated: a PairTradingStrategy driven by has_order_signal() and
\* get_order() on each True emits one entry while flat with |z| > entry_z
\* (get_order returns the order and opens the position), emits nothing
\* while the position is open and z is unchanged, and emits close_pair once
\* when |z| falls below exit_z, being flat afterwards.
C17_PairEntryHoldExit ==
    LET called(o) == /\ kind = "pair"
                     /\ op = o
                     /\ ~Empty(data)
                     /\ ~Empty(pair_data)
    IN /\ (called("get_order") /\ last_signal = "buy_pair")
              => (ret = "order" /\ current_position = quantity)
       /\ (called("get_order") /\ last_signal = "sell_pair")
              => (ret = "order" /\ current_position = 0 - quantity)
       /\ (called("get_order") /\ last_signal = "close_pair")
              => (ret = "order" /\ current_position = 0)
       /\ (called("has_order_signal") /\ current_position # 0
              /\ gen \in {"buy_pair", "sell_pair"})
              => ret = "False"

\* a < b for fractions
RLess(a, b) == a[1] * b[2] < b[1] * a[2]

\* the current RSI of the strategy's data: the last value of the series
CurrentRsi == LET rsi == calculate_rsi(Closes(Frame(data)), rsi_period)
              IN rsi[Len(rsi)]

\* C18 as stated: given enough data RSIMeanReversion.generate_signal
\* returns 'buy' exactly when the current RSI is below oversold and the
\* strategy is not long, 'sell' exactly when it is above overbought and the
\* strategy is not short, and no signal otherwise.
C18_RsiSignalRule ==
    (/\ kind = "rsi"
     /\ op = "generate_signal"
     /\ ~Empty(data)
     /\ Len(Frame(data)) >= rsi_period + 1)
        => ret = IF RLess(CurrentRsi, Num(oversold_level))
                      /\ current_position <= 0
                 THEN "buy"
                 ELSE IF RLess(Num(overbought_level), CurrentRsi)
                      /\ current_position >= 0
                 THEN "sell"
                 ELSE None

-----------------------------------------------------------------------------
(* Claims about the risk manager *)

\* C5: check_order returns False for every order presented while
\* daily_trades >= max_daily_trades on the current date; with
\* max_daily_trades = 200 and no date change the first 200 orders within
\* the size limit are approved and the 201st is rejected.
C5_DailyLimit ==
    rm_op = "check_order"
        => /\ (~rm_rolled /\ rm_before >= config.max_daily_trades)
                  => rm_ret = "False"
           /\ WithinSize(rm_order)
                  => (rm_ret = "True" <=> rm_presented <= 200)
           /\ daily_trades <= config.max_daily_trades

\* the 201st order within the size limit on one date was rejected
C5_Witness ==
    /\ rm_op = "check_order"
    /\ ~rm_rolled
    /\ WithinSize(rm_order)
    /\ rm_presented = 201
    /\ rm_before = 200
    /\ rm_ret = "False"

\* C6: check_order returns False for every order whose quantity times
\* reference price exceeds max_position_size, whatever daily_trades is.
C6_SizeLimit ==
    (rm_op = "check_order" /\ OverSize(rm_order)) => rm_ret = "False"

\* an oversize order was rejected with the daily count below its limit
C6_Witness ==
    /\ rm_op = "check_order"
    /\ OverSize(rm_order)
    /\ rm_before > 0
    /\ rm_before < config.max_daily_trades
    /\ rm_ret = "False"

\* C7: when the wall-clock date has advanced past current_date, the next
\* check_order or get_daily_trades_left sets daily_trades to 0 and
\* current_date to today before any limit is evaluated: an order that the
\* daily count alone rejected on the previous date is approved.
C7_DateRollover ==
    rm_op \in {"check_order", "get_daily_trades_left"}
        => /\ current_date = today
           /\ (rm_rolled /\ rm_op = "get_daily_trades_left")
                  => (daily_trades = 0 /\ rm_ret = config.max_daily_trades)
           /\ (rm_rolled /\ rm_op = "check_order")
                  => /\ WithinSize(rm_order) => rm_ret = "True"
                     /\ daily_trades = IF rm_ret = "True" THEN 1 ELSE 0

\* the first check_order after midnight approved an order although the
\* count stood at its limit when the date changed
C7_Witness ==
    /\ rm_op = "check_order"
    /\ rm_rolled
    /\ rm_before = config.max_daily_trades
    /\ rm_ret = "True"
    /\ daily_trades = 1

\* C8: within one date, a check_order call that returns True increases
\* daily_trades by exactly 1 and a call that returns False, by count or by
\* size, leaves daily_trades unchanged.
C8_CountFrame ==
    (rm_op = "check_order" /\ ~rm_rolled)
        => /\ rm_ret = "True" => daily_trades = rm_before + 1
           /\ rm_ret = "False" => daily_trades = rm_before

\* a call rejected an order by size and left a nonzero count as it was
C8_Witness ==
    /\ rm_op = "check_order"
    /\ ~rm_rolled
    /\ OverSize(rm_order)
    /\ rm_ret = "False"
    /\ rm_before \in 1..(config.max_daily_trades - 1)
    /\ daily_trades = rm_before

\* the current time is outside the session hours, or within the last
\* close_out_minutes before trading_end_time
OutsideWindow(t) ==
    \/ t < config.trading_start_time
    \/ t > config.trading_end_time
    \/ t > config.trading_end_time - close_out_minutes

\* C9 as stated: check_order returns False for an order when the current
\* time is outside the configured session hours or within the close-out
\* window before trading_end_time.
C9_TradingWindow ==
    (rm_op = "check_order" /\ OutsideWindow(now)) => rm_ret = "False"

-----------------------------------------------------------------------------
(* Claims about the engine *)

\* C10 as stated: in _execute_signal, _check_stop_losses and
\* _close_all_positions the ledger entry of an instrument changes only
\* after the order submitted for it reported success; a failed submission
\* leaves the entry unchanged.
C10_LedgerAfterSuccess ==
    [][\A t \in Tickers :
           positions'[t] # positions[t] => submitted'[t] = "ok"]_vars

-----------------------------------------------------------------------------
(* Claims about the order manager *)

\* the signed quantity the venue filled for an instrument in the requests
\* of the last send_order
Filled(instrument) ==
    LET hit == {i \in DOMAIN om_legs :
                   om_legs[i].ticker = instrument /\ om_legs[i].accepted}
    IN IF hit = {} THEN 0
       ELSE LET leg == om_legs[CHOOSE i \in hit : TRUE]
            IN IF leg.side = "BUY" THEN leg.lots ELSE 0 - leg.lots

\* C11 as stated: when exactly one leg of a pair order is accepted by the
\* venue and the other fails, the strategy's current_position and
\* pair_position reflect only the leg that was filled (here for an entry
\* from flat: the filled leg's signed quantity, and 0 for the other).
C11_PartialFillReflected ==
    (/\ om_op = "send_order"
     /\ om_order.signal \in {"buy_pair", "sell_pair"}
     /\ Len(om_legs) = 2
     /\ Count(om_legs) = 1)
        => /\ current_position = Filled("main")
           /\ pair_position = Filled("pair")

-----------------------------------------------------------------------------
(* Claims about the engine's main loop *)

\* C12: an exception other than KeyboardInterrupt raised inside one cycle
\* of start() never terminates the loop: the step that raises leaves
\* is_running as it is and goes to the cooldown sleep, the cooldown leads
\* only to the loop test, and the loop test of a running engine leads only
\* into a further cycle.
C12_LoopSurvivesException ==
    [][/\ eng_op' = "exception"
              => (is_running' = is_running /\ pc' = "cooldown")
       /\ (pc = "cooldown" /\ pc' # pc) => pc' = "top"
       /\ (pc = "top" /\ is_running /\ pc' # pc)
              => pc' \in {"fetch", "closing"}]_vars

\* a cycle raised, and the running engine is in a further cycle
C12_Witness ==
    /\ raised
    /\ is_running
    /\ pc = "fetch"

\* C13 as stated: once the time has passed session end minus the closing
\* offset a running engine liquidates every nonzero position, so that no
\* ledger position is nonzero when the session has ended, whether or not
\* the trading iteration of a cycle failed.
C13_FlatAtSessionEnd ==
    (is_running /\ now > config.trading_end_time)
        => \A t \in Tickers : positions[t].quantity = 0

\* C14 as stated: after the close-out liquidation no further trading
\* iteration runs in that session, so no new entry order is submitted.
C14_StoppedAfterCloseOut ==
    liquidated => pc \notin {"fetch", "signals", "stops"}

\* C15 as stated: stop() prevents any further cycle from starting and runs
\* the closing liquidation, so that after stop() returns every ledger
\* position is 0.
C15_StopLiquidates ==
    eng_op = "stop"
        => /\ ~is_running
           /\ \A t \in Tickers : positions[t].quantity = 0

\* C16 as stated: in every cycle in which an open position's price
\* breaches its stop the engine issues a closing order for the full
\* position: when the trading iteration of the cycle is over, no position
\* is left in breach of its stop, and every position the stop check
\* closed had its closing order issued.
C16_StopFiresOnBreach ==
    /\ (trading_active /\ pc \in {"closing", "sleep", "cooldown"})
           => \A t \in Tickers :
                  ~StopBreached(positions[t], last_prices[t],
                                CurrentStops[t])
    /\ eng_op = "_check_stop_losses"
           => \A t \in Tickers : submitted[t] # "failed"

-----------------------------------------------------------------------------
(* Claims about the indicators *)

\* the call was made on a series shorter than name requires
ShortInput(name, needed) == ind_name = name /\ Len(ind_data) < needed

\* C19 as stated: on a series shorter than its required period each
\* indicator returns its documented sentinel without raising: RSI the
\* neutral value 50, ATR 0, MACD a zero triple, SMA, EMA and Bollinger
\* not-a-number values.
C19_ShortInputSentinel ==
    /\ ShortInput("calculate_rsi", ind_period + 1) => ind_out = Num(50)
    /\ ShortInput("calculate_atr", ind_period + 1) => ind_out = Num(0)
    /\ ShortInput("calculate_macd", 2 * ind_period + 1)
           => ind_out = <<Num(0), Num(0), Num(0)>>
    /\ ShortInput("calculate_sma", ind_period) => ind_out = NaN
    /\ ShortInput("calculate_ema", ind_period) => ind_out = NaN
    /\ ShortInput("calculate_bollinger_bands", ind_period)
           => ind_out = <<NaN, NaN, NaN>>

\* C20 as stated: calculate_rsi yields exactly 100 at every index where the
\* average loss over the period is zero.
C20_RsiHundredWithoutLoss ==
    (ind_name = "calculate_rsi" /\ Len(ind_data) > ind_period)
        => \A i \in (ind_period + 1)..Len(ind_data) :
               AvgLoss(ind_data, ind_period, i) = Num(0)
                   => ind_out[i] = Num(100)

-----------------------------------------------------------------------------
(* Claims about the engine's cycles *)

\* C21 as stated: in the engine's trading loop a strategy whose computed
\* signal is the same in consecutive cycles causes at most one order: no
\* order is created for a ticker's signal when an order was created for the
\* same signal of that ticker in the cycle before.
C21_NoRepeatedOrder ==
    [][\A t \in Tickers :
           ~(/\ ordered[t] # None
             /\ eng_op' = "_execute_signal"
             /\ submitted'[t] = "ok"
             /\ ordered'[t] = ordered[t])]_vars

\* C23 as stated: the engine follows Idle -> Initializing -> Running: the
\* loop is inside a trading iteration (fetching prices, asking the
\* strategies, checking stops) only when initialize_strategies() has
\* completed, on every start path.
C23_InitializedBeforeTrading ==
    pc \in {"fetch", "signals", "stops"} => initialized

\* C24: a price fetch that fails (get_current_price returns None) for a
\* ticker leaves that ticker's entry of last_prices as it was, and no step
\* of the engine replaces a known price by None.
C24_FailedFetchKeepsPrice ==
    [][\A t \in Tickers :
           /\ fetched_price'[t] = <<NoNum>>
                  => last_prices'[t] = last_prices[t]
           /\ last_prices[t] # NoNum => last_prices'[t] # NoNum]_vars

\* a fetch has failed for a ticker whose price was known, and it is kept
C24_Witness ==
    \E t \in Tickers :
        fetched_price[t] = <<NoNum>> /\ last_prices[t] # NoNum

-----------------------------------------------------------------------------
(* Claims about the order manager's limit and payloads *)

\* C28 as stated: OrderManager.daily_orders never exceeds 200 between calls
\* of reset_daily_counter(), over send_order for single and pair orders and
\* close_all_positions.
C28_DailyOrdersWithinLimit == daily_orders <= daily_order_limit

\* C29 as stated: every request the OrderManager posts to the venue has
\* side 'BUY' or 'SELL', for every signal send_order accepts and for both
\* legs of a pair order.
C29_SideBuyOrSell ==
    \A i \in DOMAIN om_legs : om_legs[i].side \in {"BUY", "SELL"}

-----------------------------------------------------------------------------
\* C26 as stated: after PairTradingStrategy.get_order() for 'buy_pair' or
\* 'sell_pair' the strategy holds nonzero positions of opposite sign in its
\* two instruments, and in every state pair_position is zero exactly when
\* current_position is zero.
C26_OppositeLegs ==
    /\ (/\ kind = "pair"
        /\ op = "get_order"
        /\ last_signal \in {"buy_pair", "sell_pair"}
        /\ ~Empty(data)
        /\ ~Empty(pair_data))
           => \/ current_position > 0 /\ pair_position < 0
              \/ current_position < 0 /\ pair_position > 0
    /\ kind = "pair" => (pair_position = 0 <=> current_position = 0)

(* Claims about strategies behind the risk gate *)

\* last closes of a pair strategy's main instrument: one under which
\* quantity lots stay within max_position_size, one under which they do not
MainPrices == {100, 200000}

\* the keys check_order reads of the dict PairTradingStrategy.get_order
\* builds when the main instrument's last close is price: 'quantity' is
\* there, the price is read into current_price and left out of the dict
PairRiskOrder(price) == Order(Some(quantity), NoNum)

\* C30 as stated: RiskManager.check_order rejects a pair order of
\* PairTradingStrategy.get_order's making whenever quantity times the main
\* instrument's current price exceeds max_position_size.
C30_PairOrderSizeLimit ==
    \A price \in MainPrices :
        (/\ rm_op = "check_order"
         /\ rm_order = PairRiskOrder(price)
         /\ quantity * price > config.max_position_size)
            => rm_ret = "False"

\* the order of the signal that fired was rejected by check_order (once
\* the day's count is at the limit every order presented is rejected)
OrderRejected ==
    /\ kind # "pair"
    /\ op = "get_order"
    /\ ret = "order"
    /\ rm_op = "check_order"
    /\ rm_ret = "False"
    /\ rm_order = StrategyOrder

\* C22 as stated: when has_order_signal() returned True for a signal, the
\* resulting order was rejected by check_order, and generate_signal()
\* yields the same signal on the next cycle, has_order_signal() returns
\* True again on that cycle.
C22_RetryAfterRejection ==
    [][(OrderRejected /\ op' = "has_order_signal" /\ gen' = last_signal)
           => ret' = "True"]_vars

====
